---- MODULE Spec2Model ----
(***************************************************************************)
(* EPUB chapter listing, chapter content and cached full-text search of    *)
(* pkg/calibre/epub.go.                                                    *)
(*                                                                         *)
(* Go strings are modelled as sequences of bytes, so that the path         *)
(* arithmetic (filepath.Join/Dir/Base/Ext), fragment stripping, tag        *)
(* stripping and snippet construction are computed, not assumed.  An ASCII *)
(* byte is written as its character, any other byte as its two hex digits. *)
(***************************************************************************)
EXTENDS Integers, Sequences, FiniteSets, TLC

VARIABLES archive, searchCache, now, ret, handles, callers

vars == <<archive, searchCache, now, ret, handles, callers>>

(***************************************************************************)
(* Go's strings package                                                    *)
(***************************************************************************)

\* s[i:j] of Go (0-based, j exclusive)
Slice(s, i, j) == SubSeq(s, i + 1, j)

HasPrefix(s, p) == Len(p) <= Len(s) /\ SubSeq(s, 1, Len(p)) = p

HasSuffix(s, p) == Len(p) <= Len(s) /\ SubSeq(s, Len(s) - Len(p) + 1, Len(s)) = p

\* strings.Index: 0-based position of the first occurrence, -1 when absent
Index(s, sub) ==
    LET hits == {i \in 0..(Len(s) - Len(sub)) : Slice(s, i, i + Len(sub)) = sub}
    IN  IF hits = {} THEN -1 ELSE CHOOSE i \in hits : \A j \in hits : i <= j

Contains(s, sub) == Index(s, sub) >= 0

TrimSuffix(s, suffix) ==
    IF HasSuffix(s, suffix) THEN SubSeq(s, 1, Len(s) - Len(suffix)) ELSE s

\* strings.ReplaceAll for a non-empty old: non-overlapping, left to right
RECURSIVE ReplaceAll(_, _, _)
ReplaceAll(s, old, new) ==
    IF Len(s) < Len(old) THEN s
    ELSE IF HasPrefix(s, old)
         THEN new \o ReplaceAll(Slice(s, Len(old), Len(s)), old, new)
         ELSE <<Head(s)>> \o ReplaceAll(Tail(s), old, new)

\* strings.Split(s, sep) for a one-character sep: always at least one field
RECURSIVE Split(_, _)
Split(s, sep) ==
    LET i == Index(s, <<sep>>)
    IN  IF i = -1 THEN <<s>>
        ELSE <<Slice(s, 0, i)>> \o Split(Slice(s, i + 1, Len(s)), sep)

\* strings.Join(elems, sep) for a one-character sep
RECURSIVE JoinWith(_, _)
JoinWith(elems, sep) ==
    IF elems = <<>> THEN <<>>
    ELSE IF Len(elems) = 1 THEN elems[1]
         ELSE elems[1] \o <<sep>> \o JoinWith(Tail(elems), sep)

IsSpace(c) == c \in {" ", "\n", "\t", "\r"}

\* strings.TrimSpace
RECURSIVE TrimLeft(_)
TrimLeft(s) == IF s # <<>> /\ IsSpace(Head(s)) THEN TrimLeft(Tail(s)) ELSE s

RECURSIVE TrimRight(_)
TrimRight(s) ==
    IF s # <<>> /\ IsSpace(s[Len(s)]) THEN TrimRight(SubSeq(s, 1, Len(s) - 1)) ELSE s

TrimSpace(s) == TrimRight(TrimLeft(s))

\* strings.ToLower on the ASCII letters
LowerChar(c) ==
    CASE c = "A" -> "a" [] c = "B" -> "b" [] c = "C" -> "c" [] c = "D" -> "d"
      [] c = "E" -> "e" [] c = "F" -> "f" [] c = "G" -> "g" [] c = "H" -> "h"
      [] c = "I" -> "i" [] c = "J" -> "j" [] c = "K" -> "k" [] c = "L" -> "l"
      [] c = "M" -> "m" [] c = "N" -> "n" [] c = "O" -> "o" [] c = "P" -> "p"
      [] c = "Q" -> "q" [] c = "R" -> "r" [] c = "S" -> "s" [] c = "T" -> "t"
      [] c = "U" -> "u" [] c = "V" -> "v" [] c = "W" -> "w" [] c = "X" -> "x"
      [] c = "Y" -> "y" [] c = "Z" -> "z" [] OTHER -> c

\* UTF-8 encodings of runes whose lower case is encoded in another number
\* of bytes: U+212A KELVIN SIGN (lower case k) and U+023A LATIN CAPITAL
\* LETTER A WITH STROKE (lower case U+2C65)
KelvinSign == <<"E2", "84", "AA">>

AStroke == <<"C8", "BA">>

AStrokeLower == <<"E2", "B1", "A5">>

\* strings.ToLower of a valid UTF-8 string made of ASCII, the runes above
\* and runes without a case mapping: each rune is mapped and encoded again
RECURSIVE ToLower(_)
ToLower(s) ==
    IF s = <<>> THEN <<>>
    ELSE IF HasPrefix(s, KelvinSign)
         THEN <<"k">> \o ToLower(Slice(s, Len(KelvinSign), Len(s)))
    ELSE IF HasPrefix(s, AStroke)
         THEN AStrokeLower \o ToLower(Slice(s, Len(AStroke), Len(s)))
    ELSE <<LowerChar(Head(s))>> \o ToLower(Tail(s))

(***************************************************************************)
(* Go's path/filepath package (Unix separator)                             *)
(***************************************************************************)

\* the elements of a path that survive Clean: "" and "." dropped, ".."
\* cancelling the element before it (dropped at the root of a rooted path)
RECURSIVE CleanElems(_, _, _)
CleanElems(elems, acc, rooted) ==
    IF elems = <<>> THEN acc
    ELSE LET e == Head(elems)
             rest == Tail(elems)
         IN  IF e = <<>> \/ e = <<".">> THEN CleanElems(rest, acc, rooted)
             ELSE IF e = <<".", ".">>
                  THEN IF acc # <<>> /\ acc[Len(acc)] # <<".", ".">>
                       THEN CleanElems(rest, SubSeq(acc, 1, Len(acc) - 1), rooted)
                       ELSE IF rooted THEN CleanElems(rest, acc, rooted)
                            ELSE CleanElems(rest, Append(acc, e), rooted)
                  ELSE CleanElems(rest, Append(acc, e), rooted)

\* filepath.Clean
Clean(path) ==
    LET rooted == path # <<>> /\ Head(path) = "/"
        body == JoinWith(CleanElems(Split(path, "/"), <<>>, rooted), "/")
    IN  IF rooted THEN <<"/">> \o body
        ELSE IF body = <<>> THEN <<".">> ELSE body

\* filepath.Join(a, b): empty elements are ignored, the result is cleaned
Join(a, b) ==
    IF a = <<>> /\ b = <<>> THEN <<>>
    ELSE IF a = <<>> THEN Clean(b)
    ELSE IF b = <<>> THEN Clean(a)
    ELSE Clean(a \o <<"/">> \o b)

\* 0-based position of the last "/" of path, -1 when there is none
LastSlash(path) ==
    LET hits == {i \in 0..(Len(path) - 1) : path[i + 1] = "/"}
    IN  IF hits = {} THEN -1 ELSE CHOOSE i \in hits : \A j \in hits : j <= i

\* filepath.Dir
Dir(path) == Clean(Slice(path, 0, LastSlash(path) + 1))

RECURSIVE TrimSlashes(_)
TrimSlashes(path) ==
    IF path # <<>> /\ path[Len(path)] = "/"
    THEN TrimSlashes(SubSeq(path, 1, Len(path) - 1)) ELSE path

\* filepath.Base
Base(path) ==
    IF path = <<>> THEN <<".">>
    ELSE LET p == TrimSlashes(path)
         IN  IF p = <<>> THEN <<"/">>
             ELSE Slice(p, LastSlash(p) + 1, Len(p))

\* filepath.Ext: from the last "." of the last element, "" when it has none
Ext(path) ==
    LET from == LastSlash(path) + 1
        dots == {i \in from..(Len(path) - 1) : path[i + 1] = "."}
    IN  IF dots = {} THEN <<>>
        ELSE Slice(path, CHOOSE i \in dots : \A j \in dots : j <= i, Len(path))

(***************************************************************************)
(* The archive on disk.  XML and HTML parsing are library code: a file is  *)
(* held as what the parser delivers for it.                                *)
(*   epub      "absent" (no EPUB row for the book), "unreadable" (the zip  *)
(*             cannot be opened) or "ok"                                   *)
(*   container "missing", "malformed" or "ok", with the rootfile paths     *)
(*   opfs      path -> [ok, manifest, spine]   package descriptors         *)
(*   tocs      path -> [kind, ok, navPoints, navs]   NCX / nav documents   *)
(*   texts     path -> markup of a content document                        *)
(***************************************************************************)

NcxType == "application/x-dtbncx+xml"

XhtmlType == "application/xhtml+xml"

EmptyMap == [k \in {} |-> <<>>]

FilePaths(ar) == DOMAIN ar.opfs \cup DOMAIN ar.tocs \cup DOMAIN ar.texts

\* r.Open(name) succeeds
CanOpen(ar, path) == path \in FilePaths(ar)

\* Strip fragment
StripFragment(src) ==
    LET idx == Index(src, <<"#">>)
    IN  IF idx # -1 THEN Slice(src, 0, idx) ELSE src

\* the value a Go map holds for key k after the writes <<key, value>> of
\* seq were made in order (the last write wins)
LastWrite(seq, k) ==
    LET hits == {i \in 1..Len(seq) : seq[i][1] = k}
    IN  seq[CHOOSE i \in hits : \A j \in hits : j <= i][2]

MapOfWrites(seq) ==
    [k \in {seq[i][1] : i \in 1..Len(seq)} |-> LastWrite(seq, k)]

\* parseNcxTOC: one write per top-level navPoint, empty labels included
parseNcxTOC(doc) ==
    IF doc.kind # "ncx" \/ ~doc.ok
    THEN [err |-> "failed to parse the NCX TOC", tocMap |-> EmptyMap]
    ELSE [err |-> "",
          tocMap |-> MapOfWrites([i \in 1..Len(doc.navPoints) |->
                        <<StripFragment(doc.navPoints[i].src),
                          doc.navPoints[i].text>>])]

\* findNav: the first nav element, in document order, one of whose type or
\* epub:type attributes contains "toc" (0 when there is none)
findNav(doc) ==
    LET hits == {i \in 1..Len(doc.navs) :
                    Contains(doc.navs[i].type, <<"t", "o", "c">>)}
    IN  IF doc.kind # "nav" \/ hits = {} THEN 0
        ELSE CHOOSE i \in hits : \A j \in hits : i <= j

\* parseList: a link is written when its href and its text are non-empty
NavWrites(links) ==
    LET keep(l) == l.href # <<>> /\ l.text # <<>>
        kept == SelectSeq(links, keep)
    IN  [i \in 1..Len(kept) |-> <<StripFragment(kept[i].href), kept[i].text>>]

\* parseNavTOC (html.Parse accepts any input)
parseNavTOC(doc) ==
    LET nav == findNav(doc)
    IN  IF nav = 0
        THEN [err |-> "could not find a nav item in the Nav TOC", tocMap |-> EmptyMap]
        ELSE [err |-> "", tocMap |-> MapOfWrites(NavWrites(doc.navs[nav].links))]

\* the document r.Open(tocHref) delivers; a content document is neither
\* an NCX nor a document with a nav element
TocDoc(ar, tocHref) ==
    IF tocHref \in DOMAIN ar.tocs THEN ar.tocs[tocHref]
    ELSE [kind |-> "other", ok |-> FALSE, navPoints |-> <<>>, navs |-> <<>>]

\* hrefMap[item.Id] = filepath.Join(opfDir, item.Href)
HrefMap(manifest, opfDir) ==
    MapOfWrites([i \in 1..Len(manifest) |->
                    <<manifest[i].Id, Join(opfDir, manifest[i].Href)>>])

IsTocItem(item) ==
    Contains(item.Properties, <<"n", "a", "v">>) \/ item.MediaType = NcxType

\* position in the manifest of the item tocItem points to after the loop
\* (0: tocItem == nil).  Every matching item overwrites it, and the loop
\* variable is a fresh one per iteration (the project builds with Go 1.25),
\* so it ends as the last matching item.
FindTocItem(manifest) ==
    LET hits == {i \in 1..Len(manifest) : IsTocItem(manifest[i])}
    IN  IF hits = {} THEN 0 ELSE CHOOSE i \in hits : \A j \in hits : j <= i

\* the parser the media type selects
ParseToc(tocItem, doc) ==
    IF tocItem.MediaType = NcxType THEN parseNcxTOC(doc) ELSE parseNavTOC(doc)

\* "for src, title := range tocMap { titleMap[Join(tocDir, src)] = title }":
\* Go ranges over a map in an unspecified order, so when several sources
\* resolve to one path any of their titles may be the one that stays
TitleMapsUnresolved(tocMap, tocDir) == {tocMap}

TitleMaps(tocMap, tocDir) ==
    LET keys == {Join(tocDir, src) : src \in DOMAIN tocMap}
        cands(k) == {tocMap[src] : src \in {x \in DOMAIN tocMap : Join(tocDir, x) = k}}
        all == {tocMap[src] : src \in DOMAIN tocMap}
    IN  {f \in [keys -> all] : \A k \in keys : f[k] \in cands(k)}

\* Default to filename without extension
FallbackTitle(href) ==
    LET base == Base(href) IN TrimSuffix(base, Ext(base))

\* Override with TOC title if available
ChapterTitleAnyToc(href, titleMap) ==
    IF href \in DOMAIN titleMap THEN titleMap[href] ELSE FallbackTitle(href)

ChapterTitle(href, titleMap) ==
    IF href \in DOMAIN titleMap /\ titleMap[href] # <<>>
    THEN titleMap[href] ELSE FallbackTitle(href)

\* Get chapters from spine: i is the 0-based position in the spine, which
\* is what a chapter gets as its Index
RECURSIVE SpineChapters(_, _, _, _, _)
SpineChapters(spine, i, hrefMap, titleMap, chapters) ==
    IF i >= Len(spine) THEN chapters
    ELSE LET idref == spine[i + 1]
         IN  IF idref \notin DOMAIN hrefMap
             THEN SpineChapters(spine, i + 1, hrefMap, titleMap, chapters)
             ELSE SpineChapters(spine, i + 1, hrefMap, titleMap,
                    Append(chapters,
                           [Index |-> i,
                            Title |-> ChapterTitle(hrefMap[idref], titleMap),
                            Href |-> hrefMap[idref]]))

Failure(msg) == {[err |-> msg, chapters |-> <<>>]}

\* GetEPUBChapters from "Build title map from TOC" on, tocItem being the
\* manifest item at position tocIdx: the results it can return
ChaptersWithToc(ar, opfPath, tocIdx) ==
    LET pkg == ar.opfs[opfPath]
        opfDir == Dir(opfPath)
        tocItem == pkg.manifest[tocIdx]
        tocHref == Join(opfDir, tocItem.Href)
        tocDir == Dir(tocHref)
        toc == ParseToc(tocItem, TocDoc(ar, tocHref))
    IN  IF ~CanOpen(ar, tocHref) THEN Failure("could not open TOC")
        ELSE IF toc.err # "" THEN Failure(toc.err)
        ELSE {[err |-> "",
               chapters |-> SpineChapters(pkg.spine, 0,
                               HrefMap(pkg.manifest, opfDir), tm, <<>>)] :
              tm \in TitleMaps(toc.tocMap, tocDir)}

\* GetEPUBChapters from the parsed package on
ChaptersOfPackage(ar, opfPath) ==
    LET tocIdx == FindTocItem(ar.opfs[opfPath].manifest)
    IN  IF tocIdx = 0 THEN Failure("no TOC found")
        ELSE ChaptersWithToc(ar, opfPath, tocIdx)

\* GetEPUBChapters: the set of results a call can return on archive ar
GetEPUBChapters(ar) ==
    IF ar.epub = "absent" THEN Failure("EPUB not found for book")
    ELSE IF ar.epub # "ok" THEN Failure("failed to open EPUB")
    ELSE IF ar.container.status = "missing" THEN Failure("failed to open container.xml")
    ELSE IF ar.container.status # "ok" THEN Failure("failed to parse container.xml")
    ELSE IF Len(ar.container.rootfiles) = 0 THEN Failure("no rootfile found")
    ELSE LET opfPath == ar.container.rootfiles[1]
         IN  IF ~CanOpen(ar, opfPath) THEN Failure("failed to open OPF")
             ELSE IF opfPath \notin DOMAIN ar.opfs \/ ~ar.opfs[opfPath].ok
                  THEN Failure("failed to parse OPF")
                  ELSE ChaptersOfPackage(ar, opfPath)

(***************************************************************************)
(* Text extraction and chapter content                                     *)
(***************************************************************************)

\* a tag name between angle brackets
Tag(name) == <<"<">> \o name \o <<">">>

\* the literal break and block tags extractTextFromHTML replaces, in the
\* order of its ReplaceAll calls, each with its replacement
BlockRules ==
    LET nl == <<"\n">>
        open(n) == <<Tag(n), <<>>>>
        close(n) == <<Tag(<<"/">> \o n), nl>>
    IN  << <<Tag(<<"b", "r">>), nl>>,
           <<Tag(<<"b", "r", "/">>), nl>>,
           <<Tag(<<"b", "r", " ", "/">>), nl>>,
           open(<<"p">>), close(<<"p">>),
           open(<<"d", "i", "v">>), close(<<"d", "i", "v">>),
           open(<<"h", "1">>), close(<<"h", "1">>),
           open(<<"h", "2">>), close(<<"h", "2">>),
           open(<<"h", "3">>), close(<<"h", "3">>),
           open(<<"h", "4">>), close(<<"h", "4">>),
           open(<<"h", "5">>), close(<<"h", "5">>),
           open(<<"h", "6">>), close(<<"h", "6">>) >>

\* Decode common entities
EntityRules ==
    << << <<"&", "n", "b", "s", "p", ";">>, <<" ">> >>,
       << <<"&", "a", "m", "p", ";">>, <<"&">> >>,
       << <<"&", "l", "t", ";">>, <<"<">> >>,
       << <<"&", "g", "t", ";">>, <<">">> >>,
       << <<"&", "q", "u", "o", "t", ";">>, <<"\"">> >>,
       << <<"&", "#", "3", "9", ";">>, <<"'">> >> >>

\* a run of text = strings.ReplaceAll(text, old, new) statements
RECURSIVE ApplyRules(_, _)
ApplyRules(text, rules) ==
    IF rules = <<>> THEN text
    ELSE ApplyRules(ReplaceAll(text, rules[1][1], rules[1][2]), Tail(rules))

\* one evaluation of the condition of the "Remove other tags" loop and,
\* when it holds, of the loop's body: exit tells whether the loop is left
StripStepNoBreak(text) ==
    IF Contains(text, <<"<">>) /\ Contains(text, <<">">>)
    THEN LET start == Index(text, <<"<">>)
             end == Index(text, <<">">>)
         IN  IF start < end
             THEN [exit |-> FALSE,
                   text |-> Slice(text, 0, start) \o Slice(text, end + 1, Len(text))]
             ELSE [exit |-> FALSE, text |-> text]
    ELSE [exit |-> TRUE, text |-> text]

StripStep(text) ==
    IF Contains(text, <<"<">>) /\ Contains(text, <<">">>)
    THEN LET start == Index(text, <<"<">>)
             end == Index(text, <<">">>)
         IN  IF start < end
             THEN [exit |-> FALSE,
                   text |-> Slice(text, 0, start) \o Slice(text, end + 1, Len(text))]
             ELSE [exit |-> TRUE, text |-> text]
    ELSE [exit |-> TRUE, text |-> text]

\* Remove other tags
RECURSIVE StripTags(_)
StripTags(text) ==
    IF Contains(text, <<"<">>) /\ Contains(text, <<">">>)
    THEN LET start == Index(text, <<"<">>)
             end == Index(text, <<">">>)
         IN  IF start < end
             THEN StripTags(Slice(text, 0, start) \o Slice(text, end + 1, Len(text)))
             ELSE text
    ELSE text

\* Clean up whitespace
CleanLinesTestBeforeTrim(text) ==
    LET lines == Split(text, "\n")
        nonEmpty(l) == l # <<>>
        kept == SelectSeq(lines, nonEmpty)
    IN  JoinWith([i \in 1..Len(kept) |-> TrimSpace(kept[i])], "\n")

CleanLines(text) ==
    LET lines == Split(text, "\n")
        trimmed == [i \in 1..Len(lines) |-> TrimSpace(lines[i])]
        nonEmpty(l) == l # <<>>
    IN  JoinWith(SelectSeq(trimmed, nonEmpty), "\n")

extractTextFromHTML(html) ==
    CleanLines(ApplyRules(StripTags(ApplyRules(html, BlockRules)), EntityRules))

NoContent(msg) == [err |-> msg, content |-> <<>>]

\* GetEPUBChapterContent, given the chapter list its GetEPUBChapters call
\* returned.  The documents of the model keep the package and TOC files
\* out of the spine, so a chapter file that opens is one of ar.texts.
ContentOfListOffByOne(ar, listed, chapterIndex) ==
    IF listed.err # "" THEN NoContent(listed.err)
    ELSE IF chapterIndex < 0 \/ chapterIndex > Len(listed.chapters)
         THEN NoContent("chapter index out of range")
    ELSE IF chapterIndex = Len(listed.chapters)
         THEN NoContent("failed to open chapter")
    ELSE LET chapter == listed.chapters[chapterIndex + 1]
         IN  IF ~CanOpen(ar, chapter.Href) THEN NoContent("failed to open chapter")
             ELSE [err |-> "", content |-> extractTextFromHTML(ar.texts[chapter.Href])]

ContentOfList(ar, listed, chapterIndex) ==
    IF listed.err # "" THEN NoContent(listed.err)
    ELSE IF chapterIndex < 0 \/ chapterIndex >= Len(listed.chapters)
         THEN NoContent("chapter index out of range")
    ELSE LET chapter == listed.chapters[chapterIndex + 1]
         IN  IF ~CanOpen(ar, chapter.Href) THEN NoContent("failed to open chapter")
             ELSE [err |-> "", content |-> extractTextFromHTML(ar.texts[chapter.Href])]

\* GetEPUBChapterContent: the set of results a call can return
GetEPUBChapterContent(ar, chapterIndex) ==
    {ContentOfList(ar, listed, chapterIndex) : listed \in GetEPUBChapters(ar)}

(***************************************************************************)
(* Search                                                                  *)
(***************************************************************************)

\* para[pos:pos+len(query)] and para[pos+len(query):] are within para; Go
\* panics (slice bounds out of range) when they are not
SliceInRange(para, query) ==
    LET pos == Index(ToLower(para), ToLower(query))
    IN  pos = -1 \/ pos + Len(query) <= Len(para)

\* the SearchMatch values one chapter's content adds: one per non-empty
\* paragraph that contains the query, case-folded, around its first hit
\* (for paragraphs whose slices are in range)
RECURSIVE ParagraphMatches(_, _, _, _)
ParagraphMatches(chapter, paragraphs, query, matches) ==
    IF paragraphs = <<>> THEN matches
    ELSE LET para == Head(paragraphs)
             paraLower == ToLower(para)
             queryLower == ToLower(query)
             pos == Index(paraLower, queryLower)
             snippet == Slice(para, 0, pos) \o <<"*", "*">>
                        \o Slice(para, pos, pos + Len(query)) \o <<"*", "*">>
                        \o Slice(para, pos + Len(query), Len(para))
         IN  IF para # <<>> /\ Contains(paraLower, queryLower) /\ pos # -1
             THEN ParagraphMatches(chapter, Tail(paragraphs), query,
                    Append(matches, [ChapterIndex |-> chapter.Index,
                                     ChapterTitle |-> chapter.Title,
                                     Snippet |-> snippet]))
             ELSE ParagraphMatches(chapter, Tail(paragraphs), query, matches)

\* the loop over the chapters of SearchEPUBContent from chapter k (1-based
\* list position) on: the match sequences it can end with
RECURSIVE ChapterLoop(_, _, _, _, _)
ChapterLoop(ar, chapters, k, query, matches) ==
    IF k > Len(chapters) THEN {matches}
    ELSE UNION {
           IF c.err # ""
           THEN ChapterLoop(ar, chapters, k + 1, query, matches)
           ELSE ChapterLoop(ar, chapters, k + 1, query,
                  ParagraphMatches(chapters[k], Split(c.content, "\n"), query, matches)) :
           c \in GetEPUBChapterContent(ar, chapters[k].Index)}

\* the else branch of SearchEPUBContent up to the cache write: the
\* results [err, matches] the recompute can produce
Recompute(ar, query) ==
    UNION {
      IF listed.err # "" THEN {[err |-> listed.err, matches |-> <<>>]}
      ELSE {[err |-> "", matches |-> m] :
            m \in ChapterLoop(ar, listed.chapters, 1, query, <<>>)} :
      listed \in GetEPUBChapters(ar)}

\* strconv formatting of a non-negative int, as fmt's %d does
Digit(d) == <<"0", "1", "2", "3", "4", "5", "6", "7", "8", "9">>[d + 1]

RECURSIVE Itoa(_)
Itoa(n) == IF n < 10 THEN <<Digit(n)>> ELSE Itoa(n \div 10) \o <<Digit(n % 10)>>

\* key := fmt.Sprintf("%d:%s", bookID, query)
CacheKey(bookID, query) == Itoa(bookID) \o <<":">> \o query

\* time.Minute, in seconds
Minute == 60

\* ok && time.Since(entry.timestamp) < time.Minute
CacheHitNoExpiry(cache, key, nowT) == key \in DOMAIN cache

CacheHitNever(cache, key, nowT) == FALSE

CacheHit(cache, key, nowT) ==
    key \in DOMAIN cache /\ nowT - cache[key].timestamp < Minute

\* searchCache[key] = searchCacheEntry{matches: matches, timestamp: time.Now()}
CacheStore(cache, key, matches, nowT) ==
    [k \in DOMAIN cache \cup {key} |->
        IF k = key THEN [matches |-> matches, timestamp |-> nowT] ELSE cache[k]]

\* the offset and limit slicing that ends SearchEPUBContent
PaginateLimitFirst(matches, limit, offset) ==
    LET cut == IF limit > 0 /\ Len(matches) > limit THEN Slice(matches, 0, limit)
               ELSE matches
    IN  IF offset > 0 /\ offset >= Len(cut) THEN <<>>
        ELSE IF offset > 0 THEN Slice(cut, offset, Len(cut)) ELSE cut

Paginate(matches, limit, offset) ==
    IF offset > 0 /\ offset >= Len(matches) THEN <<>>
    ELSE LET dropped == IF offset > 0 THEN Slice(matches, offset, Len(matches))
                        ELSE matches
         IN  IF limit > 0 /\ Len(dropped) > limit THEN Slice(dropped, 0, limit)
             ELSE dropped

(***************************************************************************)
(* Archive handles: the zip reader and the entries opened from it.  A      *)
(* handle is named after the Go variable that holds it.                    *)
(***************************************************************************)

\* the exits of GetEPUBChapters taken before zip.OpenReader has given a
\* reader, and those taken before each of the entries has been opened
BeforeReader == {"EPUB not found for book", "failed to open EPUB"}

BeforeContainerFile == BeforeReader \cup {"failed to open container.xml"}

BeforeOpfFile ==
    BeforeContainerFile
        \cup {"failed to parse container.xml", "no rootfile found", "failed to open OPF"}

BeforeTocFile ==
    BeforeOpfFile \cup {"failed to parse OPF", "no TOC found", "could not open TOC"}

\* the handles a GetEPUBChapters call that returns listed has opened
ChaptersOpened(listed) ==
    (IF listed.err \in BeforeReader THEN {} ELSE {"r"})
    \cup (IF listed.err \in BeforeContainerFile THEN {} ELSE {"containerFile"})
    \cup (IF listed.err \in BeforeOpfFile THEN {} ELSE {"opfFile"})
    \cup (IF listed.err \in BeforeTocFile THEN {} ELSE {"tocFile"})

\* the handles it has closed when it has returned: a defer follows the
\* open of r, containerFile and opfFile and runs on every return after it;
\* tocFile.Close() is the statement after the io.ReadAll of the TOC
ChaptersClosedAtEnd(listed) ==
    IF listed.err = "" THEN ChaptersOpened(listed) ELSE {}

ChaptersClosed(listed) ==
    LET deferred == ChaptersOpened(listed) \cap {"r", "containerFile", "opfFile"}
        closedInline == ChaptersOpened(listed) \cap {"tocFile"}
    IN  deferred \cup closedInline

\* the handles GetEPUBChapterContent itself has opened when it returns c,
\* its GetEPUBChapters call having returned listed, and those it has closed
\* (both are deferred)
ContentOpened(listed, c) ==
    (IF listed.err \in BeforeReader THEN {} ELSE {"r"})
    \cup (IF c.err = "" THEN {"chapterFile"} ELSE {})

ContentClosed(listed, c) == ContentOpened(listed, c)

\* handles still open after one GetEPUBChapters call
ChaptersLeaves(listed) ==
    Cardinality(ChaptersOpened(listed)) - Cardinality(ChaptersClosed(listed))

\* handles still open after one GetEPUBChapterContent call: its own and
\* those of the GetEPUBChapters call it makes once it holds a reader
ContentLeaves(ar, listed, chapterIndex) ==
    LET c == ContentOfList(ar, listed, chapterIndex)
    IN  Cardinality(ContentOpened(listed, c)) - Cardinality(ContentClosed(listed, c))
        + ChaptersLeaves(listed)

\* handles still open after the recompute of SearchEPUBContent: those of
\* its GetEPUBChapters call and of one GetEPUBChapterContent call for each
\* chapter from list position k on
RECURSIVE LoopLeaves(_, _, _)
LoopLeaves(ar, listed, k) ==
    IF k > Len(listed.chapters) THEN 0
    ELSE ContentLeaves(ar, listed, listed.chapters[k].Index)
         + LoopLeaves(ar, listed, k + 1)

SearchLeaves(ar, listed) ==
    ChaptersLeaves(listed) + (IF listed.err # "" THEN 0 ELSE LoopLeaves(ar, listed, 1))

(***************************************************************************)
(* The documents the model runs on                                         *)
(***************************************************************************)

\* bounds of the model
MaxSpine == 2

MaxToc == 2

MaxTime == 120

MaxLimit == 1

MaxOffset == 1

MaxIndex == 2

MaxPage == 4

MaxPara == 3

MaxQuery == 2

MaxTokens == 3

MaxCallers == 2

BookID == 1

Item(id, href, mediaType, properties) ==
    [Id |-> id, Href |-> href, MediaType |-> mediaType, Properties |-> properties]

\* the package descriptor is o/p, so manifest hrefs are relative to o
OpfPath == <<"o", "/", "p">>

ChapterA == Item(<<"1">>, <<"a", ".", "x">>, XhtmlType, <<>>)

ChapterB == Item(<<"2">>, <<"t", "/", "b", ".", "x">>, XhtmlType, <<>>)

\* the navigation document o/t/n.x and the NCX o/t/n.c
NavItem == Item(<<"n">>, <<"t", "/", "n", ".", "x">>, XhtmlType, <<"n", "a", "v">>)

NcxItem == Item(<<"c">>, <<"t", "/", "n", ".", "c">>, NcxType, <<>>)

NavPath == <<"o", "/", "t", "/", "n", ".", "x">>

NcxPath == <<"o", "/", "t", "/", "n", ".", "c">>

PathA == <<"o", "/", "a", ".", "x">>

PathB == <<"o", "/", "t", "/", "b", ".", "x">>

\* manifests: the TOC candidates in either order, before or after the
\* content documents, and the empty manifest
TocArrangements ==
    {<<>>, <<NavItem>>, <<NcxItem>>, <<NavItem, NcxItem>>, <<NcxItem, NavItem>>}

Manifests ==
    {<<>>} \cup {t \o <<ChapterA, ChapterB>> : t \in TocArrangements}
           \cup {<<ChapterA, ChapterB>> \o t : t \in TocArrangements}

SeqsUpTo(S, n) == UNION {[1..k -> S] : k \in 0..n}

\* spines over the two content documents and a dangling idref
Spines == SeqsUpTo({<<"1">>, <<"2">>, <<"z">>}, MaxSpine)

\* TOC entries, relative to the TOC's directory o/t: b.x with a fragment,
\* a.x through the parent directory (with and without a title), b.x again
TocEntryPool ==
    { [src |-> <<"b", ".", "x", "#", "f">>, text |-> <<"B">>],
      [src |-> <<".", ".", "/", "a", ".", "x">>, text |-> <<"A">>],
      [src |-> <<".", ".", "/", "a", ".", "x">>, text |-> <<>>],
      [src |-> <<".", "/", "b", ".", "x">>, text |-> <<"Z">>] }

TocEntryLists == SeqsUpTo(TocEntryPool, MaxToc)

\* the NCX carries the entries as they are; the navigation document
\* carries them as links of its toc nav, after a landmarks nav, with
\* every title in lower case, so that the two are told apart
NcxDoc(entries) ==
    [kind |-> "ncx", ok |-> TRUE, navPoints |-> entries, navs |-> <<>>]

NavDoc(entries) ==
    [kind |-> "nav", ok |-> TRUE, navPoints |-> <<>>,
     navs |-> << [type |-> <<"l", "a", "n", "d">>,
                  links |-> << [href |-> <<"a", ".", "x">>, text |-> <<"L">>] >>],
                 [type |-> <<"t", "o", "c">>,
                  links |-> [i \in 1..Len(entries) |->
                               [href |-> entries[i].src,
                                text |-> ToLower(entries[i].text)]]] >>]

BrokenNcx == [kind |-> "ncx", ok |-> FALSE, navPoints |-> <<>>, navs |-> <<>>]

NavWithoutToc ==
    [kind |-> "nav", ok |-> TRUE, navPoints |-> <<>>,
     navs |-> << [type |-> <<"l", "a", "n", "d">>, links |-> <<>>] >>]

TextA == <<"<", "p", ">", "D", "r", "<", "/", "p", ">", "d">>

TextB == <<"<", "b", ">", "d", "<", "/", "b", ">">>

TextB2 == <<"r", "d", "<", "b", "r", ">", "D">>

Package(manifest, spine) == [ok |-> TRUE, manifest |-> manifest, spine |-> spine]

Epub(pkg, tocs, texts) ==
    [epub |-> "ok",
     container |-> [status |-> "ok", rootfiles |-> <<OpfPath>>],
     opfs |-> (OpfPath :> pkg),
     tocs |-> tocs,
     texts |-> texts]

BothTexts == (PathA :> TextA) @@ (PathB :> TextB)

\* documents for chapter listing: every manifest, spine and TOC entry list
\* with readable TOC files, and every manifest and spine with TOC files
\* that are missing or do not parse
ListArchives ==
    {Epub(Package(m, sp), (NavPath :> NavDoc(e)) @@ (NcxPath :> NcxDoc(e)), BothTexts) :
        m \in Manifests, sp \in Spines, e \in TocEntryLists}
    \cup {Epub(Package(m, sp), tocs, BothTexts) :
        m \in Manifests, sp \in Spines,
        tocs \in {EmptyMap, (NavPath :> NavWithoutToc) @@ (NcxPath :> BrokenNcx)}}

\* documents for search: the content documents as first written, with
\* o/t/b.x rewritten, or with o/t/b.x gone; the last two again with a
\* dangling idref at the head of the spine; and an EPUB file that is no
\* zip archive
SearchTocs ==
    (NavPath :> NavDoc(<< [src |-> <<"b", ".", "x", "#", "f">>, text |-> <<"B">>] >>))

SearchTexts ==
    {BothTexts, (PathA :> TextA) @@ (PathB :> TextB2), (PathA :> TextA)}

SearchArchives ==
    {Epub(Package(<<NavItem, ChapterA, ChapterB>>, << <<"1">>, <<"2">> >>),
          SearchTocs, tx) : tx \in SearchTexts}
    \cup {Epub(Package(<<NavItem, ChapterA, ChapterB>>,
                       << <<"z">>, <<"1">>, <<"2">> >>),
               SearchTocs, tx) :
          tx \in {(PathA :> TextA), (PathA :> TextA) @@ (PathB :> TextB2)}}
    \cup {[epub |-> "unreadable",
            container |-> [status |-> "missing", rootfiles |-> <<>>],
            opfs |-> EmptyMap, tocs |-> EmptyMap, texts |-> EmptyMap]}

\* documents on which GetEPUBChapters leaves by each of its error returns
\* that follow the opening of the zip reader
WithContainer(status, rootfiles, opfs, tocs) ==
    [epub |-> "ok", container |-> [status |-> status, rootfiles |-> rootfiles],
     opfs |-> opfs, tocs |-> tocs, texts |-> BothTexts]

FullPackage == Package(<<NcxItem, ChapterA, ChapterB>>, << <<"1">>, <<"2">> >>)

FailingArchives ==
    { WithContainer("missing", <<>>, EmptyMap, EmptyMap),
      WithContainer("malformed", <<>>, EmptyMap, EmptyMap),
      WithContainer("ok", <<>>, EmptyMap, EmptyMap),
      WithContainer("ok", <<OpfPath>>, EmptyMap, EmptyMap),
      WithContainer("ok", <<OpfPath>>,
                    (OpfPath :> [ok |-> FALSE, manifest |-> <<>>, spine |-> <<>>]),
                    EmptyMap),
      WithContainer("ok", <<OpfPath>>,
                    (OpfPath :> Package(<<ChapterA, ChapterB>>, << <<"1">> >>)),
                    EmptyMap),
      WithContainer("ok", <<OpfPath>>, (OpfPath :> FullPackage), EmptyMap),
      WithContainer("ok", <<OpfPath>>, (OpfPath :> FullPackage),
                    (NcxPath :> BrokenNcx)),
      [epub |-> "absent", container |-> [status |-> "missing", rootfiles |-> <<>>],
       opfs |-> EmptyMap, tocs |-> EmptyMap, texts |-> EmptyMap] }

AllArchives == SearchArchives \cup FailingArchives

Queries == {<<"d">>, <<"D", "r">>}

Limits == 0..MaxLimit

Offsets == 0..MaxOffset

Indices == -1..MaxIndex

\* limits and offsets below, at and beyond the number of matches
PageRange == -1..MaxPage

\* paragraphs and queries for snippet construction: up to MaxPara and
\* MaxQuery runes, among them a letter in both cases and the two runes
\* whose lower case has another length
SnippetRunes == {<<"d">>, <<"D">>, <<"k">>, KelvinSign, AStroke}

RECURSIVE Flatten(_)
Flatten(seqs) == IF seqs = <<>> THEN <<>> ELSE Head(seqs) \o Flatten(Tail(seqs))

Paragraphs == {Flatten(rs) : rs \in SeqsUpTo(SnippetRunes, MaxPara) \ {<<>>}}

SnippetQueries == {Flatten(rs) : rs \in SeqsUpTo(SnippetRunes, MaxQuery) \ {<<>>}}

SnippetChapter == [Index |-> 0, Title |-> <<"a">>, Href |-> PathA]

\* markup for text extraction: up to MaxTokens pieces, each a bracket, a
\* tag the literal replacements know or do not know, an entity, text or
\* white space
Tokens ==
    { <<"<">>, <<">">>, <<"d">>, <<" ">>, <<"\n">>,
      <<"&", "l", "t", ";">>, <<"&", "g", "t", ";">>,
      Tag(<<"/", "p">>), Tag(<<"d">>) }

Markups == {Flatten(ts) : ts \in SeqsUpTo(Tokens, MaxTokens)}

\* the clock advances by just under, or exactly, the freshness window
TickSteps == {Minute - 1, Minute}

(***************************************************************************)
(* The state machine.  ret is what the operation that has just returned    *)
(* was called with and gave back.  Of SearchEPUBContent it also keeps the  *)
(* locals: matches before the offset and limit are applied, found (the ok  *)
(* of the cache lookup) and hit (the whole condition of the lookup).       *)
(***************************************************************************)

NoCall ==
    [op |-> "none", query |-> <<>>, limit |-> 0, offset |-> 0, index |-> 0,
     err |-> "", chapters |-> <<>>, content |-> <<>>, matches |-> <<>>,
     result |-> <<>>, found |-> FALSE, hit |-> FALSE, html |-> <<>>, pass |-> 0]

\* no SearchEPUBContent call is under way
NoCallers == <<>>

\* GetEPUBChapterContent and the recompute of SearchEPUBContent, evaluated
\* once for each document of SearchArchives
ContentOn ==
    [a \in AllArchives |-> [i \in Indices |-> GetEPUBChapterContent(a, i)]]

RecomputeOn ==
    [a \in AllArchives |-> [q \in Queries |-> Recompute(a, q)]]

ChaptersOn == [a \in AllArchives |-> GetEPUBChapters(a)]

\* the handles a call leaves open, with what the call returns: the result
\* of GetEPUBChapterContent, the error of the recompute
ContentLeavesOn ==
    [a \in AllArchives |-> [i \in Indices |->
        {<<ContentOfList(a, listed, i), ContentLeaves(a, listed, i)>> :
            listed \in GetEPUBChapters(a)}]]

SearchLeavesOn ==
    [a \in AllArchives |->
        {<<listed.err, SearchLeaves(a, listed)>> : listed \in GetEPUBChapters(a)}]

\* the get_epub_chapters tool
ListChapters ==
    \E r \in GetEPUBChapters(archive) :
        /\ ret' = [NoCall EXCEPT !.op = "list", !.err = r.err, !.chapters = r.chapters]
        /\ handles' = handles + ChaptersLeaves(r)
        /\ UNCHANGED <<archive, searchCache, now, callers>>

\* the get_epub_chapter_content tool
ChapterContent(chapterIndex) ==
    \E c \in ContentOn[archive][chapterIndex],
       left \in ContentLeavesOn[archive][chapterIndex] :
        /\ left[1] = c
        /\ ret' = [NoCall EXCEPT !.op = "content", !.index = chapterIndex,
                                 !.err = c.err, !.content = c.content]
        /\ handles' = handles + left[2]
        /\ UNCHANGED <<archive, searchCache, now, callers>>

\* SearchEPUBContent when the entry of the key is fresh.  A call is one
\* step: the clock read of the lookup and that of the write are the same
\* instant, and the archive does not change under a running call.
SearchHit(query, limit, offset) ==
    LET key == CacheKey(BookID, query)
    IN  /\ CacheHit(searchCache, key, now)
        /\ ret' = [NoCall EXCEPT !.op = "search", !.query = query, !.limit = limit,
                      !.offset = offset, !.found = TRUE, !.hit = TRUE,
                      !.matches = searchCache[key].matches,
                      !.result = Paginate(searchCache[key].matches, limit, offset)]
        /\ UNCHANGED <<archive, searchCache, now, handles, callers>>

\* SearchEPUBContent when the key has no entry or an expired one
SearchMissStoresPage(query, limit, offset) ==
    LET key == CacheKey(BookID, query)
    IN  /\ ~CacheHit(searchCache, key, now)
        /\ \E r \in RecomputeOn[archive][query], left \in SearchLeavesOn[archive] :
             /\ left[1] = r.err
             /\ handles' = handles + left[2]
             /\ r.err = ""
             /\ searchCache' = CacheStore(searchCache, key,
                                          Paginate(r.matches, limit, offset), now)
             /\ ret' = [NoCall EXCEPT !.op = "search", !.query = query,
                           !.limit = limit, !.offset = offset,
                           !.found = (key \in DOMAIN searchCache),
                           !.matches = r.matches,
                           !.result = Paginate(r.matches, limit, offset)]
        /\ UNCHANGED <<archive, now, callers>>

SearchMiss(query, limit, offset) ==
    LET key == CacheKey(BookID, query)
    IN  /\ ~CacheHit(searchCache, key, now)
        /\ \E r \in RecomputeOn[archive][query], left \in SearchLeavesOn[archive] :
             /\ left[1] = r.err
             /\ handles' = handles + left[2]
             /\ IF r.err # ""
                THEN /\ ret' = [NoCall EXCEPT !.op = "search", !.query = query,
                                   !.limit = limit, !.offset = offset,
                                   !.found = (key \in DOMAIN searchCache),
                                   !.err = r.err]
                     /\ UNCHANGED searchCache
                ELSE /\ searchCache' = CacheStore(searchCache, key, r.matches, now)
                     /\ ret' = [NoCall EXCEPT !.op = "search", !.query = query,
                                   !.limit = limit, !.offset = offset,
                                   !.found = (key \in DOMAIN searchCache),
                                   !.matches = r.matches,
                                   !.result = Paginate(r.matches, limit, offset)]
        /\ UNCHANGED <<archive, now, callers>>

\* the search_epub_content tool
Search ==
    \E query \in Queries, limit \in Limits, offset \in Offsets :
        \/ SearchHit(query, limit, offset)
        \/ SearchMiss(query, limit, offset)

\* time passes
Tick ==
    \E d \in TickSteps :
        /\ now + d <= MaxTime
        /\ now' = now + d
        /\ ret' = NoCall
        /\ UNCHANGED <<archive, searchCache, handles, callers>>

\* the book's EPUB file is replaced on disk
ModifyArchive ==
    \E a \in SearchArchives :
        /\ a # archive
        /\ archive' = a
        /\ ret' = NoCall
        /\ UNCHANGED <<searchCache, now, handles, callers>>

Init ==
    /\ archive \in SearchArchives
    /\ searchCache = EmptyMap
    /\ now = 0
    /\ ret = NoCall
    /\ handles = 0
    /\ callers = NoCallers

Next ==
    \/ ListChapters
    \/ \E chapterIndex \in Indices : ChapterContent(chapterIndex)
    \/ Search
    \/ Tick
    \/ ModifyArchive

Spec == Init /\ [][Next]_vars

\* searches with any limit and offset, on a clock that stands still
SearchPage ==
    \E query \in Queries, limit \in PageRange, offset \in PageRange :
        \/ SearchHit(query, limit, offset)
        \/ SearchMiss(query, limit, offset)

NextPages == SearchPage \/ ModifyArchive

SpecPages == Init /\ [][NextPages]_vars

\* the body of the paragraph loop of SearchEPUBContent on one paragraph
InitSnippet ==
    /\ archive \in SearchArchives
    /\ searchCache = EmptyMap
    /\ now = 0
    /\ \E para \in Paragraphs, query \in SnippetQueries :
         ret = [NoCall EXCEPT !.op = "paragraph", !.content = para, !.query = query]
    /\ handles = 0
    /\ callers = NoCallers

MatchParagraph ==
    /\ ret.op = "paragraph"
    /\ ret' = IF SliceInRange(ret.content, ret.query)
              THEN [ret EXCEPT !.op = "snippet",
                               !.matches = ParagraphMatches(SnippetChapter,
                                              <<ret.content>>, ret.query, <<>>)]
              ELSE [ret EXCEPT !.op = "snippet",
                               !.err = "panic: slice bounds out of range"]
    /\ UNCHANGED <<archive, searchCache, now, handles, callers>>

NextSnippet == MatchParagraph

SpecSnippet == InitSnippet /\ [][NextSnippet]_vars

\* extractTextFromHTML statement by statement: ret.html is the argument of
\* the call, ret.content the variable text, ret.op where the call stands;
\* the second call (pass 2) is made on what the first returned
InitText ==
    /\ archive \in {a \in SearchArchives : a.epub # "ok"}
    /\ searchCache = EmptyMap
    /\ now = 0
    /\ \E x \in Markups :
         ret = [NoCall EXCEPT !.op = "html", !.html = x, !.content = x, !.pass = 1]
    /\ handles = 0
    /\ callers = NoCallers

ReplaceBlocks ==
    /\ ret.op = "html"
    /\ ret' = [ret EXCEPT !.op = "loop", !.content = ApplyRules(ret.content, BlockRules)]
    /\ UNCHANGED <<archive, searchCache, now, handles, callers>>

StripIteration ==
    /\ ret.op = "loop"
    /\ LET step == StripStep(ret.content)
       IN  ret' = IF step.exit THEN [ret EXCEPT !.op = "stripped"]
                  ELSE [ret EXCEPT !.content = step.text]
    /\ UNCHANGED <<archive, searchCache, now, handles, callers>>

DecodeEntities ==
    /\ ret.op = "stripped"
    /\ ret' = [ret EXCEPT !.op = "decoded",
                          !.content = ApplyRules(ret.content, EntityRules)]
    /\ UNCHANGED <<archive, searchCache, now, handles, callers>>

CleanWhitespace ==
    /\ ret.op = "decoded"
    /\ ret' = [ret EXCEPT !.op = "text", !.content = CleanLines(ret.content)]
    /\ UNCHANGED <<archive, searchCache, now, handles, callers>>

ExtractAgain ==
    /\ ret.op = "text" /\ ret.pass = 1
    /\ ret' = [ret EXCEPT !.op = "html", !.html = ret.content, !.pass = 2]
    /\ UNCHANGED <<archive, searchCache, now, handles, callers>>

NextText ==
    \/ ReplaceBlocks
    \/ StripIteration
    \/ DecodeEntities
    \/ CleanWhitespace
    \/ ExtractAgain

\* a call that is in the loop goes on running: no statement of the loop
\* blocks
SpecText == InitText /\ [][NextText]_vars /\ WF_vars(StripIteration)

(***************************************************************************)
(* Concurrent callers.  The server hands every tools/call request to a     *)
(* goroutine of its own, so several SearchEPUBContent calls can be under   *)
(* way.  callers[c] is the call of goroutine c: where it stands (at), its  *)
(* arguments and its local matches.  A read or a write of the map          *)
(* searchCache is not atomic: it begins and it ends.                       *)
(***************************************************************************)

Callers == 1..MaxCallers

Idle == [at |-> "idle", query |-> <<>>, limit |-> 0, offset |-> 0, matches |-> <<>>]

\* the goroutines inside a read, and inside a write, of searchCache
Reading == {c \in DOMAIN callers : callers[c].at = "reading"}

Writing == {c \in DOMAIN callers : callers[c].at = "writing"}

\* SearchEPUBContent is called: key is computed
Call(c) ==
    \E query \in Queries, limit \in Limits, offset \in Offsets :
        /\ callers[c].at = "idle"
        /\ callers' = [callers EXCEPT ![c] = [Idle EXCEPT !.at = "lookup",
                           !.query = query, !.limit = limit, !.offset = offset]]
        /\ UNCHANGED <<archive, searchCache, now, ret, handles>>

\* entry, ok := searchCache[key] begins
BeginLookup(c) ==
    /\ callers[c].at = "lookup"
    /\ callers' = [callers EXCEPT ![c].at = "reading"]
    /\ UNCHANGED <<archive, searchCache, now, ret, handles>>

\* what a read that overlaps writes can find in the map: the map as it is,
\* or with the entry of a write under way already in it
Views ==
    {searchCache}
    \cup {CacheStore(searchCache, CacheKey(BookID, callers[w].query),
                     callers[w].matches, now) : w \in Writing}

\* the read ends and the freshness of the entry is tested
EndLookup(c) ==
    /\ callers[c].at = "reading"
    /\ \E view \in Views :
         LET key == CacheKey(BookID, callers[c].query)
         IN  callers' = IF CacheHit(view, key, now)
                        THEN [callers EXCEPT ![c].at = "paginate",
                                             ![c].matches = view[key].matches]
                        ELSE [callers EXCEPT ![c].at = "recompute"]
    /\ UNCHANGED <<archive, searchCache, now, ret, handles>>

\* the else branch up to the cache write
RecomputeMatches(c) ==
    /\ callers[c].at = "recompute"
    /\ \E r \in RecomputeOn[archive][callers[c].query],
          left \in SearchLeavesOn[archive] :
         /\ left[1] = r.err
         /\ handles' = handles + left[2]
         /\ IF r.err # ""
            THEN /\ callers' = [callers EXCEPT ![c] = Idle]
                 /\ ret' = [NoCall EXCEPT !.op = "search", !.err = r.err,
                               !.query = callers[c].query,
                               !.limit = callers[c].limit,
                               !.offset = callers[c].offset]
            ELSE /\ callers' = [callers EXCEPT ![c].at = "store",
                                               ![c].matches = r.matches]
                 /\ UNCHANGED ret
    /\ UNCHANGED <<archive, searchCache, now>>

\* searchCache[key] = ... begins
BeginStore(c) ==
    /\ callers[c].at = "store"
    /\ callers' = [callers EXCEPT ![c].at = "writing"]
    /\ UNCHANGED <<archive, searchCache, now, ret, handles>>

\* the write ends: the entry is in the map
EndStore(c) ==
    /\ callers[c].at = "writing"
    /\ searchCache' = CacheStore(searchCache, CacheKey(BookID, callers[c].query),
                                 callers[c].matches, now)
    /\ callers' = [callers EXCEPT ![c].at = "paginate"]
    /\ UNCHANGED <<archive, now, ret, handles>>

\* the offset and limit slicing, and the return
Return(c) ==
    /\ callers[c].at = "paginate"
    /\ ret' = [NoCall EXCEPT !.op = "search", !.query = callers[c].query,
                  !.limit = callers[c].limit, !.offset = callers[c].offset,
                  !.matches = callers[c].matches,
                  !.result = Paginate(callers[c].matches, callers[c].limit,
                                      callers[c].offset)]
    /\ callers' = [callers EXCEPT ![c] = Idle]
    /\ UNCHANGED <<archive, searchCache, now, handles>>

\* a write of the map that overlaps another access of it is a data race;
\* the runtime may detect it ("fatal error: concurrent map writes",
\* "concurrent map read and map write") and end the process: every
\* goroutine is dead
Fatal ==
    /\ \E w \in Writing : (Reading \cup Writing) \ {w} # {}
    /\ callers' = [c \in DOMAIN callers |-> [Idle EXCEPT !.at = "dead"]]
    /\ UNCHANGED <<archive, searchCache, now, ret, handles>>

InitRace ==
    /\ archive \in SearchArchives
    /\ searchCache = EmptyMap
    /\ now = 0
    /\ ret = NoCall
    /\ handles = 0
    /\ callers = [c \in Callers |-> Idle]

NextRace ==
    \/ \E c \in Callers :
          \/ Call(c)
          \/ BeginLookup(c)
          \/ EndLookup(c)
          \/ RecomputeMatches(c)
          \/ BeginStore(c)
          \/ EndStore(c)
          \/ Return(c)
    \/ Fatal

SpecRace == InitRace /\ [][NextRace]_vars

\* the three operations on the documents of every exit path
InitHandles ==
    /\ archive \in AllArchives
    /\ searchCache = EmptyMap
    /\ now = 0
    /\ ret = NoCall
    /\ handles = 0
    /\ callers = NoCallers

NextHandles ==
    \/ ListChapters
    \/ \E chapterIndex \in Indices : ChapterContent(chapterIndex)
    \/ Search

SpecHandles == InitHandles /\ [][NextHandles]_vars

\* chapter listing on every document of ListArchives
InitChapters ==
    /\ archive \in ListArchives
    /\ searchCache = EmptyMap
    /\ now = 0
    /\ ret = NoCall
    /\ handles = 0
    /\ callers = NoCallers

NextChapters == ListChapters

SpecChapters == InitChapters /\ [][NextChapters]_vars

(***************************************************************************)
(* Chapter listing (SpecChapters)                                          *)
(***************************************************************************)

\* the package of the document, its TOC item and the map its parser gives
ThePackage == archive.opfs[OpfPath]

NavPositions ==
    {i \in 1..Len(ThePackage.manifest) :
        Contains(ThePackage.manifest[i].Properties, <<"n", "a", "v">>)}

NcxPositions ==
    {i \in 1..Len(ThePackage.manifest) : ThePackage.manifest[i].MediaType = NcxType}

Listed == ret.op = "list" /\ ret.err = ""

\* the spine entries whose idref is the Id of a manifest item
Resolvable ==
    {i \in 1..Len(ThePackage.spine) :
        \E j \in 1..Len(ThePackage.manifest) :
            ThePackage.manifest[j].Id = ThePackage.spine[i]}

\* C1: the chapters listChapters returns carry the indices 0, 1, ..., n-1 in
\* order, however many spine entries were skipped for a dangling idref.
C1_DenseIndices ==
    Listed => \A k \in 1..Len(ret.chapters) : ret.chapters[k].Index = k - 1

\* C2: with no navigation and no NCX item in the manifest, listChapters
\* succeeds with one chapter per resolvable spine entry, each under its
\* fallback title (stated for the documents that have such an entry).
C2_NoTocStillLists ==
    (ret.op = "list" /\ NavPositions = {} /\ NcxPositions = {} /\ Resolvable # {})
        => /\ ret.err = ""
           /\ Len(ret.chapters) = Cardinality(Resolvable)
           /\ \A k \in 1..Len(ret.chapters) :
                ret.chapters[k].Title = FallbackTitle(ret.chapters[k].Href)

\* C7: when the manifest holds a navigation item and an NCX item, in either
\* order, the listing is the one the navigation item gives.
C7_NavPrecedence ==
    (ret.op = "list" /\ NavPositions # {} /\ NcxPositions # {})
        => [err |-> ret.err, chapters |-> ret.chapters]
             \in ChaptersWithToc(archive, OpfPath,
                    CHOOSE i \in NavPositions : \A j \in NavPositions : i <= j)

\* the titles the TOC that was read holds for the canonical path href: its
\* sources are resolved against the directory of the TOC file
TocHrefOfListing ==
    Join(Dir(OpfPath), ThePackage.manifest[FindTocItem(ThePackage.manifest)].Href)

TocMapOfListing ==
    ParseToc(ThePackage.manifest[FindTocItem(ThePackage.manifest)],
             TocDoc(archive, TocHrefOfListing)).tocMap

TocTitlesFor(href) ==
    {TocMapOfListing[src] :
        src \in {x \in DOMAIN TocMapOfListing : Join(Dir(TocHrefOfListing), x) = href}}

\* C8: a chapter whose canonical href has a TOC entry with an empty title
\* keeps its fallback title, and a title other than the fallback is a
\* non-empty TOC title.
C8_EmptyTocTitleKeepsFallback ==
    Listed =>
        \A k \in 1..Len(ret.chapters) :
            LET c == ret.chapters[k]
            IN  /\ TocTitlesFor(c.Href) = {<<>>} => c.Title = FallbackTitle(c.Href)
                /\ c.Title # FallbackTitle(c.Href) => c.Title # <<>>

C8_Witness ==
    /\ Listed
    /\ \E k \in 1..Len(ret.chapters) :
         /\ TocTitlesFor(ret.chapters[k].Href) = {<<>>}
         /\ ret.chapters[k].Title = <<"a">>

C13_EmptyManifestOrSpineListsNothing ==
    (ret.op = "list" /\ (ThePackage.manifest = <<>> \/ ThePackage.spine = <<>>))
        => ret.err = "" /\ ret.chapters = <<>>

\* the TOC item of the manifest cannot be opened, or its parser fails (a
\* navigation document without a toc nav, an NCX that does not parse)
TocResolutionFails ==
    /\ FindTocItem(ThePackage.manifest) # 0
    /\ \/ ~CanOpen(archive, TocHrefOfListing)
       \/ ParseToc(ThePackage.manifest[FindTocItem(ThePackage.manifest)],
                   TocDoc(archive, TocHrefOfListing)).err # ""

\* C14: when the TOC the manifest names cannot be opened or parsed,
\* listChapters still succeeds, with one chapter per resolvable spine entry,
\* each under its fallback title.
C14_TocFailureFallsBack ==
    (ret.op = "list" /\ TocResolutionFails)
        => /\ ret.err = ""
           /\ Len(ret.chapters) = Cardinality(Resolvable)
           /\ \A k \in 1..Len(ret.chapters) :
                ret.chapters[k].Title = FallbackTitle(ret.chapters[k].Href)

(***************************************************************************)
(* Search and its cache (Spec)                                             *)
(***************************************************************************)

KeyOf(r) == CacheKey(BookID, r.query)

\* matches is a sequence a recompute on document a can produce for query
FullResultOn(a, query, matches) ==
    [err |-> "", matches |-> matches] \in RecomputeOn[a][query]

\* every entry of the cache is the unpaginated result of a recompute
EntriesAreFullResults ==
    \A k \in DOMAIN searchCache :
        \E a \in SearchArchives, q \in Queries :
            k = CacheKey(BookID, q) /\ FullResultOn(a, q, searchCache[k].matches)

\* C3: whatever limit and offset a searchContent call is made with, the
\* entry of its key holds the full match sequence the call paginated: a
\* miss stores the whole recompute, a hit returns a page of the stored
\* sequence, and no call changes another entry or the entry it hit.
C3_CacheHoldsFullResult ==
    [][ /\ EntriesAreFullResults'
        /\ (ret'.op = "search" /\ ret'.err = "") =>
              /\ KeyOf(ret') \in DOMAIN searchCache'
              /\ searchCache'[KeyOf(ret')].matches = ret'.matches
              /\ ret'.result = Paginate(searchCache'[KeyOf(ret')].matches,
                                        ret'.limit, ret'.offset)
              /\ \A k \in DOMAIN searchCache :
                    (k # KeyOf(ret') \/ ret'.hit) => searchCache'[k] = searchCache[k]
              /\ ~ret'.hit => FullResultOn(archive, ret'.query, ret'.matches) ]_vars

\* a paginated miss: the page is shorter than what went into the cache
C3_Witness ==
    /\ ret.op = "search" /\ ret.err = "" /\ ~ret.hit
    /\ ret.limit > 0 /\ ret.offset > 0
    /\ 0 < Len(ret.result) /\ Len(ret.result) < Len(ret.matches)
    /\ searchCache[KeyOf(ret)].matches = ret.matches

\* C4: a searchContent call made less than a minute after the entry of its
\* key was written returns that entry's match sequence, without reading
\* the archive, whatever the archive holds by then.
C4_FreshEntryIsReturned ==
    [][ (/\ ret'.op = "search"
         /\ KeyOf(ret') \in DOMAIN searchCache
         /\ now - searchCache[KeyOf(ret')].timestamp < Minute)
        => /\ ret'.err = "" /\ ret'.hit
           /\ ret'.matches = searchCache[KeyOf(ret')].matches
           /\ searchCache' = searchCache ]_vars

\* a hit, 59 seconds after the write, on an archive that no longer gives
\* the cached result
C4_Witness ==
    /\ ret.op = "search" /\ ret.hit
    /\ now - searchCache[KeyOf(ret)].timestamp = Minute - 1
    /\ archive.epub = "ok"
    /\ ~FullResultOn(archive, ret.query, ret.matches)

\* C5 as stated: a call that finds an entry aged a minute or more does not
\* return it, recomputes from the current archive and replaces the entry
\* by the new result under the current time.
C5_ExpiredEntryIsReplaced ==
    [][ (/\ ret'.op = "search"
         /\ KeyOf(ret') \in DOMAIN searchCache
         /\ now - searchCache[KeyOf(ret')].timestamp >= Minute)
        => /\ ~ret'.hit
           /\ searchCache'[KeyOf(ret')] = [matches |-> ret'.matches, timestamp |-> now]
           /\ FullResultOn(archive, ret'.query, ret'.matches) ]_vars

\* C5, amended: the expired entry is never returned; when the recompute
\* succeeds the result is that of the current archive and replaces the
\* entry under the current time; when the chapter list cannot be built the
\* call returns that error and the expired entry stays as it was.
C5_ExpiredEntryIsRecomputed ==
    [][ (/\ ret'.op = "search"
         /\ KeyOf(ret') \in DOMAIN searchCache
         /\ now - searchCache[KeyOf(ret')].timestamp >= Minute)
        => /\ ~ret'.hit
           /\ IF ret'.err = ""
              THEN /\ FullResultOn(archive, ret'.query, ret'.matches)
                   /\ searchCache'[KeyOf(ret')] =
                        [matches |-> ret'.matches, timestamp |-> now]
              ELSE /\ [err |-> ret'.err, matches |-> <<>>]
                        \in RecomputeOn[archive][ret'.query]
                   /\ ret'.result = <<>>
                   /\ searchCache' = searchCache ]_vars

\* the entry written at time 0 was found exactly one minute later and
\* replaced
C5_Witness ==
    /\ ret.op = "search" /\ ret.found /\ ~ret.hit /\ ret.err = ""
    /\ now = Minute
    /\ searchCache[KeyOf(ret)].timestamp = now

\* the chapter lists GetEPUBChapters gives for the current archive
ListsNow == {l \in ChaptersOn[archive] : l.err = ""}

\* C6: getChapterContent with a negative index, or one at or beyond the
\* number of chapters, fails with the index-out-of-range error and leaves
\* the search cache as it was.
C6_IndexOutOfRange ==
    [][ (/\ ret'.op = "content"
         /\ \E l \in ListsNow : ret'.index < 0 \/ ret'.index >= Len(l.chapters))
        => /\ ret'.err = "chapter index out of range"
           /\ searchCache' = searchCache ]_vars

\* the index equal to the chapter count, with entries in the cache
C6_Witness ==
    /\ ret.op = "content"
    /\ \E l \in ListsNow : Len(l.chapters) = 2 /\ ret.index = 2
    /\ ret.err = "chapter index out of range"
    /\ DOMAIN searchCache # {}

\* the matches of the chapters from list position k on, each chapter
\* searched in the text of the entry at its own href, unreadable ones left
\* out
RECURSIVE MatchesOfReadable(_, _, _)
MatchesOfReadable(chapters, k, query) ==
    IF k > Len(chapters) THEN <<>>
    ELSE (IF chapters[k].Href \in DOMAIN archive.texts
          THEN ParagraphMatches(chapters[k],
                   Split(extractTextFromHTML(archive.texts[chapters[k].Href]), "\n"),
                   query, <<>>)
          ELSE <<>>)
         \o MatchesOfReadable(chapters, k + 1, query)

\* the snippets chapter c's own entry gives for the query: those of the
\* paragraphs of the text extracted from the entry at c.Href
OwnSnippets(c, query) ==
    IF c.Href \notin DOMAIN archive.texts THEN {}
    ELSE LET own == ParagraphMatches(c,
                        Split(extractTextFromHTML(archive.texts[c.Href]), "\n"),
                        query, <<>>)
         IN  {own[i].Snippet : i \in 1..Len(own)}

\* C20: every SearchMatch of a search recompute carries the index and the
\* title of a chapter of the list and a snippet of that chapter's own
\* entry, on documents with skipped spine entries too.
C20_MatchBelongsToItsChapter ==
    (ret.op = "search" /\ ~ret.hit /\ ret.err = "") =>
        \A k \in 1..Len(ret.matches) :
            \E l \in ListsNow : \E j \in 1..Len(l.chapters) :
                /\ l.chapters[j].Index = ret.matches[k].ChapterIndex
                /\ l.chapters[j].Title = ret.matches[k].ChapterTitle
                /\ ret.matches[k].Snippet \in OwnSnippets(l.chapters[j], ret.query)

\* C10: a search recompute on a document whose chapter list can be built
\* returns without error, with every match of every readable chapter in
\* chapter order, the unreadable chapters being skipped.
C10_UnreadableChapterSkipped ==
    (ret.op = "search" /\ ~ret.hit /\ ListsNow # {})
        => /\ ret.err = ""
           /\ \E l \in ListsNow :
                ret.matches = MatchesOfReadable(l.chapters, 1, ret.query)

(***************************************************************************)
(* Archive handles (SpecHandles)                                           *)
(***************************************************************************)

C15_Pagination ==
    (ret.op = "search" /\ ret.err = "") =>
        LET M == ret.matches
            first == IF ret.offset <= 0 THEN 1 ELSE ret.offset + 1
            rest == [i \in 1..(Len(M) - first + 1) |-> M[first + i - 1]]
        IN  ret.result =
              IF ret.offset >= Len(M) THEN <<>>
              ELSE IF ret.limit > 0 /\ ret.limit < Len(rest)
                   THEN [i \in 1..ret.limit |-> rest[i]]
                   ELSE rest

\* a page from inside the result: entries dropped in front and cut behind
C15_Witness ==
    /\ ret.op = "search" /\ ret.err = ""
    /\ ret.offset > 0 /\ ret.limit > 0
    /\ ret.offset + ret.limit < Len(ret.matches)
    /\ ret.result = <<ret.matches[ret.offset + 1], ret.matches[ret.offset + 2]>>

(***************************************************************************)
(* Snippets (SpecSnippet)                                                  *)
(***************************************************************************)

\* the runes of a string of SnippetRunes and their lower cases
RECURSIVE Runes(_)
Runes(s) ==
    IF s = <<>> THEN <<>>
    ELSE LET n == IF HasPrefix(s, KelvinSign) \/ HasPrefix(s, AStrokeLower) THEN 3
                  ELSE IF HasPrefix(s, AStroke) THEN 2 ELSE 1
         IN  <<Slice(s, 0, n)>> \o Runes(Slice(s, n, Len(s)))

FoldRunes(rs) == [i \in 1..Len(rs) |-> ToLower(rs[i])]

\* 0-based rune position of the first span of para that equals query
\* under case folding, -1 when there is none
FirstSpan(para, query) ==
    LET pr == Runes(para)
        qr == Runes(query)
        hits == {p \in 0..(Len(pr) - Len(qr)) :
                    FoldRunes(SubSeq(pr, p + 1, p + Len(qr))) = FoldRunes(qr)}
    IN  IF hits = {} THEN -1 ELSE CHOOSE p \in hits : \A q \in hits : p <= q

\* the paragraph with ** on both sides of that span
Highlighted(para, query) ==
    LET pr == Runes(para)
        n == Len(Runes(query))
        p == FirstSpan(para, query)
    IN  Flatten(SubSeq(pr, 1, p)) \o <<"*", "*">>
        \o Flatten(SubSeq(pr, p + 1, p + n)) \o <<"*", "*">>
        \o Flatten(SubSeq(pr, p + n + 1, Len(pr)))

\* C16: a non-empty paragraph that contains the query under case folding
\* gives exactly one SearchMatch, whose snippet is the paragraph, in its
\* original case, with ** inserted on both sides of the first matched span
\* (as long as the raw query); any other paragraph gives no match.
C16_SnippetHighlightsFirstSpan ==
    ret.op = "snippet" =>
        /\ ret.err = ""
        /\ IF FirstSpan(ret.content, ret.query) = -1
           THEN ret.matches = <<>>
           ELSE /\ Len(ret.matches) = 1
                /\ ret.matches[1].Snippet = Highlighted(ret.content, ret.query)

(***************************************************************************)
(* Text extraction (SpecText)                                              *)
(***************************************************************************)

\* text without markup: no "<" and no "&"
Plain(text) == ~Contains(text, <<"<">>) /\ ~Contains(text, <<"&">>)

\* C17 as stated: extractText applied to its own output returns it
\* unchanged, for every input markup.
C17_Idempotent ==
    (ret.op = "text" /\ ret.pass = 2) => ret.content = ret.html

\* C17, amended: extractText applied to its own output returns it unchanged
\* whenever that output is plain text (holds no "<" and no "&").
C17_IdempotentOnPlainText ==
    (ret.op = "text" /\ ret.pass = 2 /\ Plain(ret.html)) => ret.content = ret.html

\* a second call has returned a plain first output of two lines
C17_Witness ==
    /\ ret.op = "text" /\ ret.pass = 2 /\ Plain(ret.html)
    /\ ret.html = <<"d", "\n", "d">>
    /\ ret.content = ret.html

\* C18: when the tag-stripping loop has ended, the text holds no "<" that is
\* followed later by a ">".
C18_NoTagLeft ==
    ret.op = "stripped" =>
        ~\E i, j \in 1..Len(ret.content) :
            i < j /\ ret.content[i] = "<" /\ ret.content[j] = ">"

\* C19: every iteration of the tag-stripping loop either makes the text
\* strictly shorter or leaves the loop, and a call that is in the loop
\* comes out of it.
C19_StripLoopTerminates ==
    /\ [][ret.op = "loop" =>
            (ret'.op = "stripped" \/ Len(ret'.content) < Len(ret.content))]_vars
    /\ (ret.op = "loop" ~> ret.op = "stripped")

\* the loop has removed a tag and was then left by its break, a ">"
\* standing before the first "<"
C19_Witness ==
    /\ ret.op = "stripped" /\ ret.pass = 1
    /\ ret.html = Tag(<<"d">>) \o <<">", "<">>
    /\ ret.content = <<">", "<">>

(***************************************************************************)
(* Concurrent searches (SpecRace)                                          *)
(***************************************************************************)

\* C11: the accesses of concurrent searchContent callers to the search
\* cache exclude each other: in no reachable state is one caller writing
\* the cache table while another caller is reading or writing it.
C11_CacheAccessExclusive ==
    \A w \in Writing : (Reading \cup Writing) \ {w} = {}

====
